---------------------------- MODULE Spec2Model ----------------------------
(***************************************************************************)
(* A model of the multi-source feed aggregator of src/index.js: the        *)
(* refresh() cycle (fetch every source, normalize, de-duplicate, sort,     *)
(* replace CACHE), the HTTP handlers that read CACHE, the boot refresh and *)
(* the cron trigger.                                                       *)
(*                                                                         *)
(* Strings are tuples of one-character strings, so that trimming is        *)
(* computed.  A timestamp is a natural number (milliseconds); the text of  *)
(* a timestamp is its decimal notation, so that formatting and parsing are *)
(* computed as well.  A JavaScript value is a record [type, s, n].         *)
(***************************************************************************)
EXTENDS Integers, Sequences, FiniteSets, TLC

(***************************************************************************)
(* Bounds of the model.                                                    *)
(***************************************************************************)
\* refresh() invocations in one behaviour: the boot refresh and the cron's.
MaxRuns == 2
\* items one source delivers
MaxFeedLen == 1

(***************************************************************************)
(* JavaScript values and strings.                                          *)
(***************************************************************************)
Undefined == [type |-> "undefined", s |-> <<>>, n |-> 0]
Str(s)    == [type |-> "string", s |-> s, n |-> 0]
Num(n)    == [type |-> "number", s |-> <<>>, n |-> n]
\* a value that is neither a string nor a number nor absent, e.g. {} or []
Obj       == [type |-> "object", s |-> <<>>, n |-> 0]

\* ToBoolean of a value
Truthy(v) ==
  CASE v.type = "undefined" -> FALSE
    [] v.type = "string"    -> v.s # <<>>
    [] v.type = "number"    -> v.n # 0
    [] OTHER                -> TRUE

\* a || b
Or(a, b) == IF Truthy(a) THEN a ELSE b

IsString(v) == v.type = "string"

WhiteSpace == {" "}

RECURSIVE TrimStart(_)
TrimStart(s) ==
  IF s # <<>> /\ Head(s) \in WhiteSpace THEN TrimStart(Tail(s)) ELSE s

RECURSIVE TrimEnd(_)
TrimEnd(s) ==
  IF s # <<>> /\ s[Len(s)] \in WhiteSpace
    THEN TrimEnd(SubSeq(s, 1, Len(s) - 1))
    ELSE s

\* String.prototype.trim
Trim(s) == TrimEnd(TrimStart(s))

(***************************************************************************)
(* Dates.  A Date object is [valid, t]; an Invalid Date has valid = FALSE  *)
(* and its time value is NaN.                                              *)
(***************************************************************************)
Digits == <<"0", "1", "2", "3", "4", "5", "6", "7", "8", "9">>

DigitValue(c) == (CHOOSE i \in 1..10 : Digits[i] = c) - 1

IsDigit(c) == \E i \in 1..10 : Digits[i] = c

\* Date.prototype.toISOString of a valid date: the text of the timestamp
RECURSIVE ToISOString(_)
ToISOString(t) ==
  IF t < 10 THEN <<Digits[t + 1]>>
            ELSE ToISOString(t \div 10) \o <<Digits[(t % 10) + 1]>>

RECURSIVE ParseDigits(_, _)
ParseDigits(s, acc) ==
  IF s = <<>> THEN acc ELSE ParseDigits(Tail(s), 10 * acc + DigitValue(Head(s)))

ValidDate(t) == [valid |-> TRUE, t |-> t]
InvalidDate  == [valid |-> FALSE, t |-> 0]

\* Date.parse: a text that is not a timestamp gives NaN
DateParse(s) ==
  IF s # <<>> /\ \A i \in 1..Len(s) : IsDigit(s[i])
    THEN ValidDate(ParseDigits(s, 0))
    ELSE InvalidDate

\* new Date(v) for a string or a number
NewDate(v) ==
  CASE v.type = "string" -> DateParse(v.s)
    [] v.type = "number" -> ValidDate(v.n)
    [] OTHER             -> InvalidDate

\* a >= b on Date objects (false when either is an Invalid Date: NaN)
DateGE(a, b) == a.valid /\ b.valid /\ a.t >= b.t


(***************************************************************************)
(* The configured sources (two of the four of the code) and what a source  *)
(* answers.                                                                *)
(***************************************************************************)
SOURCES == <<"https://hnrss.org/frontpage", "https://daringfireball.net/feeds/json">>

SourceIds == 1..Len(SOURCES)

\* an item as rss-parser delivers it
RssItem(link, guid, isoDate, pubDate) ==
  [link |-> link, guid |-> guid, isoDate |-> isoDate, pubDate |-> pubDate]

\* an item of a JSON Feed document
JsonItem(url, external_url, date_published, date_modified) ==
  [url |-> url, external_url |-> external_url,
   date_published |-> date_published, date_modified |-> date_modified]

\* The items a feed may hold: a plain one, one whose link differs from it by
\* surrounding whitespace and whose date does not parse, one with a guid
\* and neither link nor date, one whose link is whitespace.
RssItems ==
  { RssItem(Str(<<"a">>), Undefined, Undefined, Str(<<"2">>)),
    RssItem(Str(<<" ", "a">>), Undefined, Str(<<"x">>), Undefined),
    RssItem(Undefined, Str(<<"b">>), Undefined, Undefined),
    RssItem(Str(<<" ">>), Undefined, Str(<<"1">>), Undefined) }

\* a plain one, one without url and date, one whose url is no string
JsonItems ==
  { JsonItem(Undefined, Str(<<"b">>), Undefined, Str(<<"1">>)),
    JsonItem(Undefined, Undefined, Undefined, Undefined),
    JsonItem(Obj, Undefined, Str(<<"1">>), Undefined) }

SeqsUpTo(S, n) == UNION { [1..k -> S] : k \in 0..n }

\* What a source answers to a fetch:
\*   "json"        content-type JSON, a document with an items array
\*   "jsonNoItems" content-type JSON, a document without an items array
\*   "rss"         an RSS/Atom document
\*   "error"       the request fails, or the body is malformed
\*   "stall"       the request never completes
Responses ==
  { [kind |-> "rss", items |-> f] : f \in SeqsUpTo(RssItems, MaxFeedLen) }
    \cup { [kind |-> "json", items |-> f] : f \in SeqsUpTo(JsonItems, MaxFeedLen) }
    \cup { [kind |-> k, items |-> <<>>] : k \in {"jsonNoItems", "error", "stall"} }

(***************************************************************************)
(* tryParseJSONFeed and parser.parseURL                                    *)
(***************************************************************************)
\* the item mapping of tryParseJSONFeed, at clock reading t
MapJSONItem(it, url, t) ==
  [link     |-> Or(it.url, Or(it.external_url, Str(<<>>))),
   guid     |-> Undefined,
   isoDate  |-> Or(it.date_published, Or(it.date_modified, Str(ToISOString(t)))),
   pubDate  |-> Undefined,
   _source  |-> url]

\* tryParseJSONFeed(url) once the fetch has settled: the items, or null
TryParseJSONFeed(resp, url, t) ==
  IF resp.kind = "json"
    THEN [null |-> FALSE,
          items |-> [i \in 1..Len(resp.items) |-> MapJSONItem(resp.items[i], url, t)]]
    ELSE [null |-> TRUE, items |-> <<>>]

\* parser.parseURL(url) once it has settled: the feed's items, or a throw
ParseURL(resp) ==
  IF resp.kind = "rss"
    THEN [threw |-> FALSE, items |-> resp.items]
    ELSE [threw |-> TRUE, items |-> <<>>]

\* it._source = src
TagSource(it, src) ==
  [link |-> it.link, guid |-> it.guid, isoDate |-> it.isoDate,
   pubDate |-> it.pubDate, _source |-> src]

(***************************************************************************)
(* Normalization, de-duplication and sorting of refresh()                  *)
(***************************************************************************)
\* pickVideo(it) evaluates it.link.includes(...) when it.link is truthy
PickVideoThrows(it) == Truthy(it.link) /\ ~IsString(it.link)

\* a faulty variant: the guid is not tried when the link is missing
NormalizeItemNoGuid(it, t) ==
  [link   |-> Or(it.link, Str(<<>>)),
   date   |-> NewDate(Or(it.isoDate, Or(it.pubDate, Num(t)))),
   source |-> it._source]

\* a faulty variant: the date fields are not read, every item is dated now
NormalizeItemNow(it, t) ==
  [link   |-> Or(it.link, Or(it.guid, Str(<<>>))),
   date   |-> NewDate(Num(t)),
   source |-> it._source]

\* the map callback of refresh(), at clock reading t
NormalizeItem(it, t) ==
  [link   |-> Or(it.link, Or(it.guid, Str(<<>>))),
   date   |-> NewDate(Or(it.isoDate, Or(it.pubDate, Num(t)))),
   source |-> it._source]

\* .filter((it) => it.link)
RECURSIVE FilterLinked(_)
FilterLinked(items) ==
  IF items = <<>> THEN <<>>
  ELSE IF Truthy(Head(items).link)
    THEN <<Head(items)>> \o FilterLinked(Tail(items))
    ELSE FilterLinked(Tail(items))

\* it.link.trim() throws when the link is no string
TrimThrows(items) == \E i \in 1..Len(items) : ~IsString(items[i].link)

\* a faulty variant: the key is the link as it stands, not trimmed
RECURSIVE DedupeUntrimmed(_, _)
DedupeUntrimmed(items, seen) ==
  IF items = <<>> THEN <<>>
  ELSE LET it  == Head(items)
           key == it.link.s
       IN IF Trim(key) = <<>> \/ key \in seen
            THEN DedupeUntrimmed(Tail(items), seen)
            ELSE <<it>> \o DedupeUntrimmed(Tail(items), seen \cup {key})

\* a faulty variant: of the items with one key the last is kept
RECURSIVE DedupeKeepLast(_, _)
DedupeKeepLast(items, seen) ==
  IF items = <<>> THEN <<>>
  ELSE LET it   == Head(items)
           key  == Trim(it.link.s)
           rest == Tail(items)
       IN IF key = <<>> \/ \E i \in 1..Len(rest) : Trim(rest[i].link.s) = key
            THEN DedupeKeepLast(rest, seen)
            ELSE <<it>> \o DedupeKeepLast(rest, seen \cup {key})

\* the loop over normalized, with the set seen
RECURSIVE Dedupe(_, _)
Dedupe(items, seen) ==
  IF items = <<>> THEN <<>>
  ELSE LET it  == Head(items)
           key == Trim(it.link.s)
       IN IF key = <<>> \/ key \in seen
            THEN Dedupe(Tail(items), seen)
            ELSE <<it>> \o Dedupe(Tail(items), seen \cup {key})

\* (a, b) => b.date - a.date, as the sort reads it: NaN counts as +0
SortCompare(a, b) ==
  IF a.date.valid /\ b.date.valid THEN b.date.t - a.date.t ELSE 0

RECURSIVE InsertSorted(_, _)
InsertSorted(sorted, x) ==
  IF sorted = <<>> THEN <<x>>
  ELSE LET last == sorted[Len(sorted)]
       IN IF SortCompare(last, x) > 0
            THEN InsertSorted(SubSeq(sorted, 1, Len(sorted) - 1), x) \o <<last>>
            ELSE sorted \o <<x>>

\* deduped.sort(...): a stable insertion sort.  With a comparator that is
\* not consistent (an Invalid Date among the items) the order the engine
\* produces is implementation-defined; this is one such order.
RECURSIVE SortByDateDesc(_)
SortByDateDesc(items) ==
  IF items = <<>> THEN <<>>
  ELSE InsertSorted(SortByDateDesc(SubSeq(items, 1, Len(items) - 1)),
                    items[Len(items)])

\* the synchronous tail of refresh() over the collected items, at clock
\* reading t: a throw, or the items assigned to CACHE
Merge(collected, t) ==
  LET normalized == FilterLinked([i \in 1..Len(collected) |-> NormalizeItem(collected[i], t)])
  IN IF (\E i \in 1..Len(collected) : PickVideoThrows(collected[i]))
          \/ TrimThrows(normalized)
       THEN [threw |-> TRUE, items |-> <<>>]
       ELSE [threw |-> FALSE, items |-> SortByDateDesc(Dedupe(normalized, {}))]

(***************************************************************************)
(* The state.                                                              *)
(***************************************************************************)
VARIABLES
  world,      \* world[s]: what source s answers (fixed during a behaviour)
  now,        \* the clock
  CACHE,      \* the module variable CACHE: [items, lastBuild]
  pc,         \* pc[r]: where invocation r of refresh() stands
  collected,  \* collected[r]: the local array collected of invocation r
  built,      \* built[r]: the values invocation r has assigned to CACHE
  writers,    \* the invocations that assigned CACHE, in order of assignment
  observed    \* what the HTTP handler of this step has read, if it is one

vars == <<world, now, CACHE, pc, collected, built, writers, observed>>

Runs == 1..MaxRuns

\* CACHE = { items: deduped, lastBuild: new Date() }
NewCache(items, t) == [items |-> items, lastBuild |-> t]

\* let CACHE = { items: [], lastBuild: new Date() }, at module evaluation
InitialCache == NewCache(<<>>, 2)

Idle == [at |-> "idle", src |-> 0]

\* refresh() up to its first await: the fetch of the first source
Entered == [at |-> "json", src |-> 1]

\* Module evaluation: CACHE is empty, the boot refresh() has run up to its
\* first await, no request has been served.
Init ==
  /\ world \in [SourceIds -> Responses]
  /\ now = InitialCache.lastBuild
  /\ CACHE = InitialCache
  /\ pc = [r \in Runs |-> IF r = 1 THEN Entered ELSE Idle]
  /\ collected = [r \in Runs |-> <<>>]
  /\ built = [r \in Runs |-> <<>>]
  /\ writers = <<>>
  /\ observed = <<>>

\* cron.schedule("*/15 * * * *", refresh): the timer calls refresh(), whether
\* or not an earlier invocation is still in flight.  The clock is read in
\* periods of the timer: it has advanced by one whenever the timer fires.
CronFire(r) ==
  /\ pc[r] = Idle
  /\ \A q \in Runs : q < r => pc[q] # Idle
  /\ now' = now + 1
  /\ pc' = [pc EXCEPT ![r] = Entered]
  /\ collected' = [collected EXCEPT ![r] = <<>>]
  /\ observed' = <<>>
  /\ UNCHANGED <<world, CACHE, built, writers>>

\* The code after the last source: normalize, de-duplicate, sort and assign
\* CACHE, in one synchronous stretch.  A throw rejects the promise of
\* refresh() and leaves CACHE as it was.
Complete(r, coll) ==
  LET m == Merge(coll, now)
  IN /\ collected' = [collected EXCEPT ![r] = coll]
     /\ IF m.threw
          THEN /\ pc' = [pc EXCEPT ![r] = [at |-> "raised", src |-> 0]]
               /\ UNCHANGED <<CACHE, built, writers>>
          ELSE /\ pc' = [pc EXCEPT ![r] = [at |-> "done", src |-> 0]]
               /\ CACHE' = NewCache(m.items, now)
               /\ built' = [built EXCEPT ![r] = Append(@, NewCache(m.items, now))]
               /\ writers' = Append(writers, r)

\* a faulty variant: CACHE is assigned after every source, from the items
\* collected so far
AfterSourcePublishing(r, coll) ==
  IF pc[r].src < Len(SOURCES)
    THEN /\ pc' = [pc EXCEPT ![r] = [at |-> "json", src |-> pc[r].src + 1]]
         /\ collected' = [collected EXCEPT ![r] = coll]
         /\ CACHE' = IF Merge(coll, now).threw THEN CACHE
                                                ELSE NewCache(Merge(coll, now).items, now)
         /\ UNCHANGED <<built, writers>>
    ELSE Complete(r, coll)

\* the loop over SOURCES moves on: the next source, or the code after the loop
AfterSource(r, coll) ==
  IF pc[r].src < Len(SOURCES)
    THEN /\ pc' = [pc EXCEPT ![r] = [at |-> "json", src |-> pc[r].src + 1]]
         /\ collected' = [collected EXCEPT ![r] = coll]
         /\ UNCHANGED <<CACHE, built, writers>>
    ELSE Complete(r, coll)

\* await tryParseJSONFeed(src) settles
JSONFeedSettles(r) ==
  /\ pc[r].at = "json"
  /\ world[pc[r].src].kind # "stall"
  /\ LET src == SOURCES[pc[r].src]
         jf  == TryParseJSONFeed(world[pc[r].src], src, now)
     IN IF jf.null
          THEN /\ pc' = [pc EXCEPT ![r] = [at |-> "rss", src |-> pc[r].src]]
               /\ UNCHANGED <<CACHE, collected, built, writers>>
          ELSE AfterSource(r, collected[r] \o
                 [i \in 1..Len(jf.items) |-> TagSource(jf.items[i], src)])
  /\ observed' = <<>>
  /\ UNCHANGED <<world, now>>

\* await parser.parseURL(src) settles
ParseURLSettles(r) ==
  /\ pc[r].at = "rss"
  /\ world[pc[r].src].kind # "stall"
  /\ LET src  == SOURCES[pc[r].src]
         feed == ParseURL(world[pc[r].src])
     IN IF feed.threw
          THEN AfterSource(r, collected[r])
          ELSE AfterSource(r, collected[r] \o
                 [i \in 1..Len(feed.items) |-> TagSource(feed.items[i], src)])
  /\ observed' = <<>>
  /\ UNCHANGED <<world, now>>

\* Any of the routes /, /rss.xml, /atom.xml, /feed.json, /health: the handler
\* reads CACHE.lastBuild and CACHE.items in one synchronous stretch and
\* answers; it assigns nothing to CACHE and awaits nothing.
HandleRequest ==
  /\ observed' = <<[lastBuild |-> CACHE.lastBuild, items |-> CACHE.items]>>
  /\ UNCHANGED <<world, now, CACHE, pc, collected, built, writers>>

Next ==
  \/ \E r \in Runs : CronFire(r)
  \/ \E r \in Runs : JSONFeedSettles(r)
  \/ \E r \in Runs : ParseURLSettles(r)
  \/ HandleRequest

Spec == Init /\ [][Next]_vars

\* The event loop resumes refresh() whenever the promise it awaits has settled.
FairSpec ==
  /\ Spec
  /\ \A r \in Runs : WF_vars(JSONFeedSettles(r)) /\ WF_vars(ParseURLSettles(r))

(***************************************************************************)
(* Properties.                                                             *)
(***************************************************************************)
\* invocation r has assigned CACHE
Published(r) == built[r] # <<>>

\* invocation r has run to its end: it has assigned CACHE, or it has thrown
Finished(r) == pc[r].at \in {"done", "raised"}

InFlight(r) == pc[r].at \in {"json", "rss"}

\* the link an item is known by: its link, else its guid
RawLink(it) ==
  IF Truthy(it.link) THEN it.link ELSE IF Truthy(it.guid) THEN it.guid ELSE Str(<<>>)

\* the de-duplication key of a collected item (empty when it has none)
RawKey(it) == IF IsString(RawLink(it)) THEN Trim(RawLink(it).s) ELSE <<>>

ItemKey(item) == Trim(item.link.s)

\* every source answers with a feed
AllFetched == \A s \in SourceIds : world[s].kind \in {"rss", "json"}

\* every item the sources deliver carries a date field
AllDated ==
  \A s \in SourceIds : \A i \in 1..Len(world[s].items) :
    LET it == world[s].items[i]
    IN IF world[s].kind = "json"
         THEN Truthy(it.date_published) \/ Truthy(it.date_modified)
         ELSE Truthy(it.isoDate) \/ Truthy(it.pubDate)

\* C1: no two items of CACHE.items have the same link, compared after
\* trimming surrounding whitespace (so neither the same link as it stands).
CacheLinksUnique ==
  \A i, j \in 1..Len(CACHE.items) :
    i # j => ItemKey(CACHE.items[i]) # ItemKey(CACHE.items[j])

\* CACHE holds the result of an invocation that collected two items whose
\* links differ by surrounding whitespace only
DuplicateLinkDropped ==
  \E r \in Runs :
    /\ Published(r)
    /\ CACHE = built[r][1]
    /\ Len(CACHE.items) = 1
    /\ \E i, j \in 1..Len(collected[r]) :
         /\ i # j
         /\ RawLink(collected[r][i]) # RawLink(collected[r][j])
         /\ RawKey(collected[r][i]) = RawKey(collected[r][j])
         /\ RawKey(collected[r][i]) = ItemKey(CACHE.items[1])

\* C2: CACHE.items is ordered by date, descending: of two adjacent items the
\* first has a date >= the date of the second.
CacheSortedByDateDesc ==
  \A i \in 1..(Len(CACHE.items) - 1) :
    DateGE(CACHE.items[i].date, CACHE.items[i + 1].date)

\* C3: a handler can answer in every state, whatever refresh() is doing, and
\* leaves the cache as it found it; what it reads is the initial cache or the
\* cache one invocation of refresh() assigned at its end, items and lastBuild
\* of the same assignment, the items being the merge of all that invocation
\* collected.
HandlerReadsCompleteSnapshot ==
  /\ ENABLED HandleRequest
  /\ observed # <<>> =>
       /\ observed[1] = [lastBuild |-> CACHE.lastBuild, items |-> CACHE.items]
       /\ \/ observed[1] = InitialCache
          \/ \E r \in Runs :
               /\ pc[r].at = "done"
               /\ Published(r)
               /\ observed[1] = built[r][1]
               /\ observed[1].items =
                    Merge(collected[r], observed[1].lastBuild).items

\* a handler answers while an invocation that has already collected items is
\* in flight, with the snapshot of an earlier invocation
ReadDuringRefresh ==
  /\ observed # <<>>
  /\ \E r \in Runs : InFlight(r) /\ collected[r] # <<>>
  /\ \E q \in Runs : Published(q) /\ observed[1] = built[q][1]
                       /\ observed[1].items # <<>>

\* the items the sources deliver
Delivered(s) == IF world[s].kind \in {"rss", "json"} THEN Len(world[s].items) ELSE 0

RECURSIVE SumDelivered(_)
SumDelivered(n) == IF n = 0 THEN 0 ELSE Delivered(n) + SumDelivered(n - 1)

\* C4: refresh() never raises: an invocation that has left the loop over the
\* sources has assigned CACHE, from the items of all the sources that
\* answered; when no source answered, with no items and a new lastBuild.
RefreshNeverRaises ==
  \A r \in Runs :
    /\ pc[r].at # "raised"
    /\ pc[r].at = "done" =>
         /\ Len(collected[r]) = SumDelivered(Len(SOURCES))
         /\ Len(built[r]) = 1
         /\ (\A s \in SourceIds : world[s].kind \notin {"rss", "json"})
              => built[r][1].items = <<>>

\* C5: an invocation of refresh() always runs to its end, also when the
\* fetch of one source does not complete.
StalledSourceDoesNotHalt ==
  \A r \in Runs : InFlight(r) ~> Finished(r)

\* the links of a list of items, in order
LinksOf(items) == [i \in 1..Len(items) |-> items[i].link]

\* C6 as stated: two invocations over the same sources, all fetched, assign
\* the same items in the same order (compared by their links alone).
Idempotent ==
  \A r1, r2 \in Runs :
    Published(r1) /\ Published(r2) /\ AllFetched
      => LinksOf(built[r1][1].items) = LinksOf(built[r2][1].items)

\* C6, amended: two invocations over the same sources, all fetched and every
\* delivered item carrying a date field, assign the same items in the same
\* order.
IdempotentWhenDated ==
  \A r1, r2 \in Runs :
    Published(r1) /\ Published(r2) /\ AllFetched /\ AllDated
      => built[r1][1].items = built[r2][1].items

\* two invocations at different clock readings have assigned the same two
\* items, all sources fetched and every item dated
TwoBuildsSameItems ==
  /\ AllFetched
  /\ AllDated
  /\ \E r1, r2 \in Runs :
       /\ Published(r1)
       /\ Published(r2)
       /\ built[r1][1].lastBuild # built[r2][1].lastBuild
       /\ Len(built[r1][1].items) = 2
       /\ built[r1][1].items = built[r2][1].items

\* the invocation whose assignment CACHE holds
Writer == writers[Len(writers)]

\* C7: of the collected items with one key, the first is in the cache, as
\* normalized, and no other item of the cache has that key.
FirstOccurrenceKept ==
  writers # <<>> =>
    LET coll == collected[Writer]
    IN \A i \in 1..Len(coll) :
         (RawKey(coll[i]) # <<>> /\ \A j \in 1..(i - 1) : RawKey(coll[j]) # RawKey(coll[i]))
           => /\ \E k \in 1..Len(CACHE.items) :
                   CACHE.items[k] = NormalizeItem(coll[i], CACHE.lastBuild)
              /\ Cardinality({ k \in 1..Len(CACHE.items) :
                                 ItemKey(CACHE.items[k]) = RawKey(coll[i]) }) = 1

\* CACHE holds the item of the first source, the second source having
\* delivered an item with the same key and another date
LaterDuplicateDropped ==
  \E r \in Runs :
    /\ Published(r)
    /\ CACHE = built[r][1]
    /\ Len(collected[r]) = 2
    /\ RawKey(collected[r][1]) = RawKey(collected[r][2])
    /\ collected[r][1]._source # collected[r][2]._source
    /\ Len(CACHE.items) = 1
    /\ CACHE.items[1].source = collected[r][1]._source
    /\ NormalizeItem(collected[r][2], CACHE.lastBuild).date # CACHE.items[1].date

\* C8: no item of CACHE has an empty link; a collected item without a usable
\* link is left out, every other collected item has its key in the cache,
\* and an item with a guid and no link is there with the guid as its link.
CacheLinksNonEmpty ==
  /\ \A k \in 1..Len(CACHE.items) :
       IsString(CACHE.items[k].link) /\ ItemKey(CACHE.items[k]) # <<>>
  /\ writers # <<>> =>
       LET coll == collected[Writer]
       IN /\ \A k \in 1..Len(CACHE.items) :
               \E i \in 1..Len(coll) : RawKey(coll[i]) = ItemKey(CACHE.items[k])
          /\ \A i \in 1..Len(coll) :
               RawKey(coll[i]) # <<>>
                 => \E k \in 1..Len(CACHE.items) :
                      /\ ItemKey(CACHE.items[k]) = RawKey(coll[i])
                      /\ (~Truthy(coll[i].link) /\
                            \A j \in 1..(i - 1) : RawKey(coll[j]) # RawKey(coll[i]))
                           => CACHE.items[k].link = coll[i].guid

\* CACHE holds an item known by its guid, the same invocation having
\* collected an item without a usable link
GuidKeptBlankDropped ==
  \E r \in Runs :
    /\ Published(r)
    /\ CACHE = built[r][1]
    /\ \E i, j \in 1..Len(collected[r]) :
         /\ RawKey(collected[r][i]) = <<>>
         /\ ~Truthy(collected[r][j].link)
         /\ Len(CACHE.items) = 1
         /\ CACHE.items[1].link = collected[r][j].guid

\* the date the claim gives a collected item, normalized at clock reading t
ClaimedDate(it, t) ==
  LET field == IF it.isoDate.type # "undefined" THEN it.isoDate ELSE it.pubDate
  IN IF IsString(field) /\ DateParse(field.s).valid
       THEN DateParse(field.s)
       ELSE ValidDate(t)

\* C9: an item of the cache carries the date of its date field when that
\* parses, and the clock reading of its normalization otherwise; every item
\* of the cache carries a valid date.
DatesAsClaimed ==
  \A r \in Runs : \A b \in 1..Len(built[r]) :
    \A k \in 1..Len(built[r][b].items) :
      LET item == built[r][b].items[k]
      IN /\ item.date.valid
         /\ \E i \in 1..Len(collected[r]) :
              /\ NormalizeItem(collected[r][i], built[r][b].lastBuild) = item
              /\ item.date = ClaimedDate(collected[r][i], built[r][b].lastBuild)

\* C10: every invocation of refresh() that has run to its end has assigned
\* CACHE exactly once, and once all invocations have run to their end CACHE is
\* what the last of them to assign has assigned.
OverlapSafe ==
  /\ \A r \in Runs : Finished(r) => Len(built[r]) = 1
  /\ (\A r \in Runs : Finished(r))
       => /\ writers # <<>>
          /\ CACHE = built[writers[Len(writers)]][1]

=============================================================================
